---- MODULE Spec2Model ----
(***************************************************************************)
(* Model of src/app.py: the Streamlit travel planner and its Gemini        *)
(* generation client generate_itinerary_gemini (bounded exponential        *)
(* backoff around one HTTP POST per attempt).                              *)
(***************************************************************************)
EXTENDS Integers, Sequences, FiniteSets, TLC

(***************************************************************************)
(* Program constants and model bounds                                      *)
(***************************************************************************)
MAX_RETRIES == 5

\* number of distinct generated texts the remote service may answer with
NumTexts == 2

\* number of invocations of generate_itinerary_gemini that are modelled
NumCalls == 3

\* st.number_input("Number of Days", min_value=1, max_value=14, value=3)
MinDays == 1
MaxDays == 14
DefaultDays == 3

\* how many days before today, and after the latest default end date, the
\* date pickers are moved
MaxDateOffset == 1

Calls == 1..NumCalls

(***************************************************************************)
(* JSON values as Python sees them after response.json().  An object       *)
(* is a function over Keys; a key the object does not hold maps to Absent. *)
(***************************************************************************)
Keys == {"candidates", "content", "parts", "text", "error"}

Absent == [t |-> "absent"]
JNull == [t |-> "null"]
JStr(s) == [t |-> "str", s |-> s]
JNum(n) == [t |-> "num", n |-> n]
JList(l) == [t |-> "list", l |-> l]
JObj(o) == [t |-> "obj", o |-> o]

EmptyObj == JObj([k \in Keys |-> Absent])
Obj(k, v) == JObj([x \in Keys |-> IF x = k THEN v ELSE Absent])

\* a response body that is not a JSON document at all (HTML page, empty body)
NotJson == [t |-> "notjson"]

Texts == {"itinerary " \o ToString(i) : i \in 1..NumTexts}

\* the expected shape, candidates[0].content.parts[0].text, with v in the
\* place of the value at depth lvl of that path (0 = the document itself,
\* 6 = the text field)
ShapeAt(lvl, v) ==
  LET l6 == v
      l5 == IF lvl = 5 THEN v ELSE Obj("text", l6)
      l4 == IF lvl = 4 THEN v ELSE JList(<<l5>>)
      l3 == IF lvl = 3 THEN v ELSE Obj("parts", l4)
      l2 == IF lvl = 2 THEN v ELSE Obj("content", l3)
      l1 == IF lvl = 1 THEN v ELSE JList(<<l2>>)
      l0 == IF lvl = 0 THEN v ELSE Obj("candidates", l1)
  IN  l0

WellFormedBody(txt) == ShapeAt(6, JStr(txt))

\* values that can stand where the expected shape has something else
Deviants == {JNull, JNum(7), JStr(""), JStr("x"), EmptyObj, JList(<<>>)}

\* deviations of the kind "missing key" or "empty list": the container at
\* each level has the right type but lacks the member the path asks for
MissingBodies ==
  {ShapeAt(0, EmptyObj), ShapeAt(1, JList(<<>>)), ShapeAt(2, EmptyObj),
   ShapeAt(3, EmptyObj), ShapeAt(4, JList(<<>>)), ShapeAt(5, EmptyObj)}

Bodies200 ==
  {WellFormedBody(txt) : txt \in Texts}
    \cup {ShapeAt(lvl, v) : lvl \in 0..6, v \in Deviants}
    \cup {NotJson}

ErrorBody == Obj("error", JStr("status message"))
ErrorBodies == {ErrorBody, NotJson}

(***************************************************************************)
(* Python subscription, data[key] and data[0], on a parsed JSON value.     *)
(***************************************************************************)
Ok(v) == [exc |-> "none", v |-> v]
Raise(e) == [exc |-> e, v |-> JNull]

GetItemKey(v, k) ==
  CASE v.t = "obj" -> IF v.o[k].t = "absent" THEN Raise("KeyError") ELSE Ok(v.o[k])
    [] OTHER -> Raise("TypeError")

GetItemIdx(v, i) ==
  CASE v.t = "obj" -> Raise("KeyError")
    [] v.t = "list" -> IF i < Len(v.l) THEN Ok(v.l[i + 1]) ELSE Raise("IndexError")
    [] v.t = "str" -> IF i < Len(v.s) THEN Ok(JStr(SubSeq(v.s, i + 1, i + 1)))
                                       ELSE Raise("IndexError")
    [] OTHER -> Raise("TypeError")

\* one more subscript on the value of r, unless an exception is already under way
SubscriptKey(r, k) == IF r.exc # "none" THEN r ELSE GetItemKey(r.v, k)
SubscriptIdx(r, i) == IF r.exc # "none" THEN r ELSE GetItemIdx(r.v, i)

\* data["candidates"][0]["content"]["parts"][0], without the last subscript
ExtractTextNoTextKey(data) ==
  SubscriptIdx(SubscriptKey(SubscriptKey(SubscriptIdx(SubscriptKey(Ok(data),
    "candidates"), 0), "content"), "parts"), 0)

\* data["candidates"][0]["content"]["parts"][0]["text"]
ExtractText(data) ==
  SubscriptKey(SubscriptIdx(SubscriptKey(SubscriptKey(SubscriptIdx(SubscriptKey(Ok(data),
    "candidates"), 0), "content"), "parts"), 0), "text")

(***************************************************************************)
(* The conditions and expressions of the retry loop                        *)
(***************************************************************************)
\* the range runs one index too far
RangeHasNextInclusive(i) == i <= MAX_RETRIES

\* range(MAX_RETRIES) yields index i
RangeHasNext(i) == i < MAX_RETRIES

\* every 5xx status is retried
IsRetryStatusAll5xx(s) == s = 429 \/ s >= 500

\* response.status_code in [429, 500, 503]
IsRetryStatus(s) == s \in {429, 500, 503}

\* 2 * attempt in the place of 2 ** attempt; a fixed wait on connection errors
WaitTimeStatusProduct(a) == 2 * a
WaitTimeExceptionFixed(a) == 1

\* wait_time = 2 ** attempt, in the status branch and in the except branch
WaitTimeStatus(a) == 2 ^ a
WaitTimeException(a) == 2 ^ a

\* the final attempt sleeps as well
SleepsBeforeRetryStatusAlways(a) == a < MAX_RETRIES

\* the final attempt sleeps after a connection error
SleepsBeforeRetryExceptionAlways(a) == a < MAX_RETRIES

\* if attempt < MAX_RETRIES - 1, in the status branch and in the except branch
SleepsBeforeRetryStatus(a) == a < MAX_RETRIES - 1
SleepsBeforeRetryException(a) == a < MAX_RETRIES - 1

\* except KeyError alone
ParseErrorCaughtKeyOnly(e) == e \in {"KeyError"}

\* except (KeyError, IndexError)
ParseErrorCaught(e) == e \in {"KeyError", "IndexError"}

(***************************************************************************)
(* Outcomes of one requests.post: a response (status, raw body) or a       *)
(* requests.exceptions.RequestException raised by the transport.           *)
(***************************************************************************)
RetryStatuses == {429, 500, 503}
OtherStatuses == {400, 401, 403, 404, 502}

NoResponse == [fault |-> FALSE, status |-> 0, body |-> NotJson]
Fault == [fault |-> TRUE, status |-> 0, body |-> NotJson]
Response(s, b) == [fault |-> FALSE, status |-> s, body |-> b]

Outcomes ==
  {Fault}
    \cup {Response(200, b) : b \in Bodies200}
    \cup {Response(s, ErrorBody) : s \in RetryStatuses}
    \cup {Response(s, b) : s \in OtherStatuses, b \in ErrorBodies}

(***************************************************************************)
(* What a call hands back: a returned value or an exception that leaves    *)
(* the function.                                                           *)
(***************************************************************************)
NoResult == [kind |-> "none", code |-> 0, val |-> JNull, exc |-> "none"]
\* return data["candidates"][0]["content"]["parts"][0]["text"]
ReturnValue(v) == [kind |-> "value", code |-> 0, val |-> v, exc |-> "none"]
\* return "Error: Could not parse a valid response text from the API."
ParseError == [kind |-> "parse_error", code |-> 0, val |-> JNull, exc |-> "none"]
\* return f"API Error: Status Code {status_code} ... {response.text}"
ApiError(s, b) == [kind |-> "api_error", code |-> s, val |-> b, exc |-> "none"]
\* return f"API Error: Failed to connect after {MAX_RETRIES} attempts."
Exhausted(n) == [kind |-> "exhausted", code |-> n, val |-> JNull, exc |-> "none"]
\* an exception no handler of the function catches
Raised(e) == [kind |-> "raised", code |-> 0, val |-> JNull, exc |-> e]

\* the secret GEMINI_API_KEY: unset (None), or a string
NoSecret == [set |-> FALSE, v |-> ""]
Secret(s) == [set |-> TRUE, v |-> s]
Secrets == {NoSecret, Secret(""), Secret("AIza-key")}
\* gemini_key is None
FalsyNoneOnly(k) == ~k.set

\* not gemini_key
Falsy(k) == ~k.set \/ k.v = ""

VARIABLES
  gemini_key,      \* st.secrets.get("GEMINI_API_KEY")
  json_error,      \* the class response.json() raises on a non-JSON body
  app,             \* the script: "start", "stopped" (st.stop), "ready" (key
                   \* loaded) or "form" (sidebar evaluated)
  key_error_shown, \* st.error of the missing key was displayed
  days,            \* the day count after the sidebar ran
  start_date,      \* st.date_input("Start Date"), in days from today
  end_date,        \* st.date_input("End Date"), in days from today
  days_info,       \* st.info "Days updated" was displayed
  days_error,      \* st.error "Please enter a valid number of days." was displayed
  pc,              \* per call: position in generate_itinerary_gemini
  call_days,       \* per call: the days argument
  structure,       \* per call: the lines of itinerary_structure
  api_key,         \* per call: the api_key argument
  attempt,         \* per call: the loop variable, -1 before the loop
  response,        \* per call: the response of the last POST
  wait_time,       \* per call: the local wait_time
  result,          \* per call: what the call handed back
  hist,            \* per call: the outcomes of its POSTs, in order
  post_log,        \* per call: attempt index and key of every POST made
  sleeps,          \* per call: the durations passed to time.sleep, in order
  warnings         \* per call: the st.warning messages, in order

vars == <<gemini_key, json_error, app, key_error_shown, days, start_date, end_date,
          days_info, days_error, pc, call_days, structure, api_key, attempt,
          response, wait_time, result, hist, post_log, sleeps, warnings>>

envVars == <<gemini_key, json_error>>
appVars == <<app, key_error_shown>>
logVars == <<hist, post_log, sleeps, warnings>>
uiVars == <<days, start_date, end_date, days_info, days_error>>
argVars == <<call_days, structure>>

Init ==
  /\ gemini_key \in Secrets
  \* requests 2.27 and later raise requests.exceptions.JSONDecodeError, a
  \* RequestException; earlier versions raise a plain ValueError
  /\ json_error \in {"RequestException", "ValueError"}
  /\ app = "start"
  /\ key_error_shown = FALSE
  /\ days = DefaultDays
  /\ start_date = 0
  /\ end_date = DefaultDays - 1
  /\ days_info = FALSE
  /\ days_error = FALSE
  /\ pc = [c \in Calls |-> "idle"]
  /\ call_days = [c \in Calls |-> 0]
  /\ structure = [c \in Calls |-> <<>>]
  /\ api_key = [c \in Calls |-> NoSecret]
  /\ attempt = [c \in Calls |-> -1]
  /\ response = [c \in Calls |-> NoResponse]
  /\ wait_time = [c \in Calls |-> 0]
  /\ result = [c \in Calls |-> NoResult]
  /\ hist = [c \in Calls |-> <<>>]
  /\ post_log = [c \in Calls |-> <<>>]
  /\ sleeps = [c \in Calls |-> <<>>]
  /\ warnings = [c \in Calls |-> <<>>]

\* lines 15-18: the key is loaded; without it the script shows an error and stops
LoadKey ==
  /\ app = "start"
  /\ IF Falsy(gemini_key)
       THEN app' = "stopped" /\ key_error_shown' = TRUE
       ELSE app' = "ready" /\ key_error_shown' = FALSE
  /\ UNCHANGED <<envVars, uiVars, argVars, pc, api_key, attempt, response, wait_time, result, logVars>>

\* lines 24-35: the sidebar; the user leaves n in the number input and picks
\* the dates s and e (in days from today); a date range that disagrees with
\* n replaces the day count
Sidebar(n, s, e) ==
  /\ app = "ready"
  /\ start_date' = s
  /\ end_date' = e
  /\ IF (e - s) + 1 # n
       THEN days' = (e - s) + 1 /\ days_info' = TRUE
       ELSE days' = n /\ days_info' = FALSE
  /\ app' = "form"
  /\ UNCHANGED <<envVars, key_error_shown, days_error, pc, argVars, api_key, attempt,
                 response, wait_time, result, logVars>>

\* the day count is below one
DaysInvalidNegativeOnly(d) == d < 0

\* line 142: days <= 0
DaysInvalid(d) == d <= 0

\* lines 141-143: the button is pressed with an invalid day count
ButtonInvalid ==
  /\ app = "form"
  /\ DaysInvalid(days)
  /\ days_error' = TRUE
  /\ UNCHANGED <<envVars, appVars, days, start_date, end_date, days_info, pc, argVars,
                 api_key, attempt, response, wait_time, result, logVars>>

\* lines 141-154: the button is pressed and generate_itinerary_gemini is
\* called with the day count and gemini_key
Button(c) ==
  /\ app = "form"
  /\ ~DaysInvalid(days)
  /\ pc[c] = "idle"
  /\ call_days' = [call_days EXCEPT ![c] = days]
  /\ api_key' = [api_key EXCEPT ![c] = gemini_key]
  /\ pc' = [pc EXCEPT ![c] = "prompt"]
  /\ UNCHANGED <<envVars, appVars, uiVars, structure, attempt, response, wait_time,
                 result, logVars>>

\* lines 57-64: the section of day i, line by line
DaySection(i) ==
  << "### Day " \o ToString(i),
     "-   **Morning:** [Fill in low-cost/free activity]",
     "-   **Afternoon:** [Fill in cultural/interest activity]",
     "-   **Evening:** [Fill in cheap food market/local hangout]",
     "-   **Transport Tip:** [Fill in public transport advice]",
     "-   **Estimated Daily Cost:** [Fill in rough daily budget]" >>

\* range(1, days): the loop stops one day early
RangeDaysExclusive(n) == [k \in 1..(n - 1) |-> k]

\* line 56: range(1, days + 1), the indices in the order the loop takes them
RangeDays(n) == [k \in 1..n |-> k]

\* lines 56-64: the loop body appends the section of each index of r to acc
RECURSIVE AppendSections(_, _)
AppendSections(acc, r) ==
  IF r = <<>> THEN acc
  ELSE AppendSections(acc \o DaySection(Head(r)), Tail(r))

\* lines 55-64: itinerary_structure after the loop
ItineraryStructure(n) == AppendSections(<<>>, RangeDays(n))

\* lines 52-99: url, itinerary_structure, prompt, headers and payload are built
BuildPrompt(c) ==
  /\ pc[c] = "prompt"
  /\ structure' = [structure EXCEPT ![c] = ItineraryStructure(call_days[c])]
  /\ pc' = [pc EXCEPT ![c] = "for"]
  /\ UNCHANGED <<envVars, appVars, uiVars, call_days, api_key, attempt, response,
                 wait_time, result, logVars>>

\* the attempt counter is one module-level variable that all calls advance
ForNextSharedCounter(c) ==
  /\ pc[c] = "for"
  /\ RangeHasNext(attempt[c] + 1)
  /\ attempt' = [d \in Calls |-> attempt[c] + 1]
  /\ pc' = [pc EXCEPT ![c] = "post"]
  /\ UNCHANGED <<envVars, uiVars, argVars, appVars, api_key, response, wait_time, result, logVars>>

\* line 102: the loop takes its next index
ForNext(c) ==
  /\ pc[c] = "for"
  /\ RangeHasNext(attempt[c] + 1)
  /\ attempt' = [attempt EXCEPT ![c] = attempt[c] + 1]
  /\ pc' = [pc EXCEPT ![c] = "post"]
  /\ UNCHANGED <<envVars, uiVars, argVars, appVars, api_key, response, wait_time, result, logVars>>

\* lines 102, 137: the range is used up, the function returns the failure
ForExhausted(c) ==
  /\ pc[c] = "for"
  /\ ~RangeHasNext(attempt[c] + 1)
  /\ result' = [result EXCEPT ![c] = Exhausted(MAX_RETRIES)]
  /\ pc' = [pc EXCEPT ![c] = "done"]
  /\ UNCHANGED <<envVars, uiVars, argVars, appVars, api_key, attempt, response, wait_time, logVars>>

\* line 104: requests.post answers with outcome o
Post(c, o) ==
  /\ pc[c] = "post"
  /\ post_log' = [post_log EXCEPT ![c] = Append(@, [attempt |-> attempt[c], key |-> api_key[c]])]
  /\ hist' = [hist EXCEPT ![c] = Append(@, o)]
  /\ IF o.fault
       THEN pc' = [pc EXCEPT ![c] = "except"] /\ UNCHANGED response
       ELSE pc' = [pc EXCEPT ![c] = "classify"] /\ response' = [response EXCEPT ![c] = o]
  /\ UNCHANGED <<envVars, uiVars, argVars, appVars, api_key, attempt, wait_time, result, sleeps, warnings>>

\* lines 107-113: status 200, the body is parsed and the text extracted
On200(c) ==
  /\ pc[c] = "classify"
  /\ response[c].status = 200
  /\ IF response[c].body.t = "notjson"
       THEN \* response.json() raises its JSONDecodeError
            IF json_error = "RequestException"
              THEN pc' = [pc EXCEPT ![c] = "except"] /\ UNCHANGED result
              ELSE /\ pc' = [pc EXCEPT ![c] = "done"]
                   /\ result' = [result EXCEPT ![c] = Raised(json_error)]
       ELSE LET r == ExtractText(response[c].body)
            IN  /\ pc' = [pc EXCEPT ![c] = "done"]
                /\ result' = [result EXCEPT ![c] =
                     IF r.exc = "none" THEN ReturnValue(r.v)
                     ELSE IF ParseErrorCaught(r.exc) THEN ParseError
                     ELSE Raised(r.exc)]
  /\ UNCHANGED <<envVars, uiVars, argVars, appVars, api_key, attempt, response, wait_time, logVars>>

\* lines 116-119, 122: a retry status; wait_time is computed, the last
\* attempt continues without warning or sleep
OnRetryStatus(c) ==
  /\ pc[c] = "classify"
  /\ response[c].status # 200
  /\ IsRetryStatus(response[c].status)
  /\ wait_time' = [wait_time EXCEPT ![c] = WaitTimeStatus(attempt[c])]
  /\ pc' = [pc EXCEPT ![c] = IF SleepsBeforeRetryStatus(attempt[c]) THEN "warn_status" ELSE "for"]
  /\ UNCHANGED <<envVars, uiVars, argVars, appVars, api_key, attempt, response, result, logVars>>

\* line 120
WarnStatus(c) ==
  /\ pc[c] = "warn_status"
  /\ warnings' = [warnings EXCEPT ![c] = Append(@,
       [cause |-> "status", status |-> response[c].status, wait |-> wait_time[c]])]
  /\ pc' = [pc EXCEPT ![c] = "sleep_status"]
  /\ UNCHANGED <<envVars, uiVars, argVars, appVars, api_key, attempt, response, wait_time, result,
                 hist, post_log, sleeps>>

\* lines 121-122
SleepStatus(c) ==
  /\ pc[c] = "sleep_status"
  /\ sleeps' = [sleeps EXCEPT ![c] = Append(@, wait_time[c])]
  /\ pc' = [pc EXCEPT ![c] = "for"]
  /\ UNCHANGED <<envVars, uiVars, argVars, appVars, api_key, attempt, response, wait_time, result,
                 hist, post_log, warnings>>

\* the permanent error is noted but the loop goes on: continue for return
OnOtherStatusContinues(c) ==
  /\ pc[c] = "classify"
  /\ response[c].status # 200
  /\ ~IsRetryStatus(response[c].status)
  /\ result' = [result EXCEPT ![c] = ApiError(response[c].status, response[c].body)]
  /\ pc' = [pc EXCEPT ![c] = "for"]
  /\ UNCHANGED <<envVars, uiVars, argVars, appVars, api_key, attempt, response, wait_time, logVars>>

\* lines 124-126: any other status is returned as a permanent error
OnOtherStatus(c) ==
  /\ pc[c] = "classify"
  /\ response[c].status # 200
  /\ ~IsRetryStatus(response[c].status)
  /\ result' = [result EXCEPT ![c] = ApiError(response[c].status, response[c].body)]
  /\ pc' = [pc EXCEPT ![c] = "done"]
  /\ UNCHANGED <<envVars, uiVars, argVars, appVars, api_key, attempt, response, wait_time, logVars>>

\* lines 128-131, 134: a RequestException is caught
OnRequestException(c) ==
  /\ pc[c] = "except"
  /\ wait_time' = [wait_time EXCEPT ![c] = WaitTimeException(attempt[c])]
  /\ pc' = [pc EXCEPT ![c] = IF SleepsBeforeRetryException(attempt[c]) THEN "warn_except" ELSE "for"]
  /\ UNCHANGED <<envVars, uiVars, argVars, appVars, api_key, attempt, response, result, logVars>>

\* the except branch sleeps without a warning
WarnExceptionSilent(c) ==
  /\ pc[c] = "warn_except"
  /\ pc' = [pc EXCEPT ![c] = "sleep_except"]
  /\ UNCHANGED <<envVars, uiVars, argVars, appVars, api_key, attempt, response, wait_time,
                 result, logVars>>

\* line 132
WarnException(c) ==
  /\ pc[c] = "warn_except"
  /\ warnings' = [warnings EXCEPT ![c] = Append(@,
       [cause |-> "connection", status |-> 0, wait |-> wait_time[c]])]
  /\ pc' = [pc EXCEPT ![c] = "sleep_except"]
  /\ UNCHANGED <<envVars, uiVars, argVars, appVars, api_key, attempt, response, wait_time, result,
                 hist, post_log, sleeps>>

\* lines 133-134
SleepException(c) ==
  /\ pc[c] = "sleep_except"
  /\ sleeps' = [sleeps EXCEPT ![c] = Append(@, wait_time[c])]
  /\ pc' = [pc EXCEPT ![c] = "for"]
  /\ UNCHANGED <<envVars, uiVars, argVars, appVars, api_key, attempt, response, wait_time, result,
                 hist, post_log, warnings>>

\* one step of call c other than its start and its POST
Run(c) ==
  \/ BuildPrompt(c)
  \/ ForNext(c)
  \/ ForExhausted(c)
  \/ On200(c)
  \/ OnRetryStatus(c)
  \/ WarnStatus(c)
  \/ SleepStatus(c)
  \/ OnOtherStatus(c)
  \/ OnRequestException(c)
  \/ WarnException(c)
  \/ SleepException(c)

\* what the user can leave in the sidebar: n in the number input, start and
\* end date in days from today
UIInputs ==
  {<<n, s, e>> : n \in MinDays..MaxDays,
                 s \in (-MaxDateOffset)..MaxDateOffset,
                 e \in (-MaxDateOffset)..(MaxDays - 1 + MaxDateOffset)}

\* the widgets' defaults: 3 days from today
DefaultInputs == {<<DefaultDays, 0, DefaultDays - 1>>}

\* the defaults, and an end date before the start date
SmallInputs == DefaultInputs \cup {<<DefaultDays, 0, -1>>}

\* the application with one user action: a single call of the client
Next ==
  \/ LoadKey
  \/ \E in \in SmallInputs : Sidebar(in[1], in[2], in[3])
  \/ ButtonInvalid
  \/ Button(1)
  \/ \E o \in Outcomes : Post(1, o)
  \/ Run(1)

Spec == Init /\ [][Next]_vars

\* the same application when every HTTP request and every sleep completes:
\* a step of the call that can be taken is taken
SpecLive ==
  /\ Init
  /\ [][Next]_vars
  /\ WF_vars(\E o \in Outcomes : Post(1, o))
  /\ WF_vars(Run(1))

(***************************************************************************)
(* Two calls on matched outcomes: call 1 runs on any outcome sequence,     *)
(* then call 2 runs on the same sequence in which any of the 429/500/503   *)
(* responses may have been replaced by a transport fault.                  *)
(***************************************************************************)
TwinOutcomes ==
  {Fault,
   Response(429, ErrorBody), Response(500, ErrorBody), Response(503, ErrorBody),
   Response(401, ErrorBody),
   Response(200, WellFormedBody("itinerary 1")),
   Response(200, ShapeAt(5, EmptyObj)),
   Response(200, ShapeAt(1, JNull)),
   Response(200, NotJson)}

\* what may stand for outcome o in the second run
Replacements(o) ==
  IF ~o.fault /\ o.status \in RetryStatuses THEN {o, Fault} ELSE {o}

ReplayPost ==
  /\ Len(hist[2]) < Len(hist[1])
  /\ \E o \in Replacements(hist[1][Len(hist[2]) + 1]) : Post(2, o)

NextTwin ==
  \/ LoadKey
  \/ \E in \in DefaultInputs : Sidebar(in[1], in[2], in[3])
  \/ Button(1)
  \/ \E o \in TwinOutcomes : Post(1, o)
  \/ Run(1)
  \/ pc[1] = "done" /\ Button(2)
  \/ ReplayPost
  \/ Run(2)

SpecTwin == Init /\ [][NextTwin]_vars

(***************************************************************************)
(* The whole input form: every day count and date pair the sidebar can     *)
(* hold, one call, and a service that answers with one outcome of each     *)
(* class.                                                                  *)
(***************************************************************************)
UIOutcomes ==
  {Fault,
   Response(503, ErrorBody),
   Response(401, ErrorBody),
   Response(200, WellFormedBody("itinerary 1"))}

NextUI ==
  \/ LoadKey
  \/ \E in \in UIInputs : Sidebar(in[1], in[2], in[3])
  \/ ButtonInvalid
  \/ Button(1)
  \/ \E o \in UIOutcomes : Post(1, o)
  \/ Run(1)

SpecUI == Init /\ [][NextUI]_vars

(***************************************************************************)
(* Concurrent calls: calls 1 and 2 run interleaved in every order, each    *)
(* on its own outcomes; when both are over, call 3 runs alone on the       *)
(* outcome sequence call 1 has had.                                        *)
(***************************************************************************)
SoloReplayPost ==
  /\ Len(hist[3]) < Len(hist[1])
  /\ Post(3, hist[1][Len(hist[3]) + 1])

NextConc ==
  \/ LoadKey
  \/ \E in \in DefaultInputs : Sidebar(in[1], in[2], in[3])
  \/ \E c \in {1, 2} : Button(c)
  \/ \E c \in {1, 2} : \E o \in UIOutcomes : Post(c, o)
  \/ \E c \in {1, 2} : Run(c)
  \/ pc[1] = "done" /\ pc[2] = "done" /\ Button(3)
  \/ SoloReplayPost
  \/ Run(3)

SpecConc == Init /\ [][NextConc]_vars

TypeOK ==
  /\ gemini_key \in Secrets
  /\ app \in {"start", "stopped", "ready", "form"}
  /\ days \in Int
  /\ \A c \in Calls :
       /\ pc[c] \in {"idle", "prompt", "for", "post", "classify", "except", "warn_status",
                     "sleep_status", "warn_except", "sleep_except", "done"}
       /\ attempt[c] \in -1..(MAX_RETRIES - 1)
       /\ Len(hist[c]) = Len(post_log[c])

(***************************************************************************)
(* Vocabulary of the properties                                            *)
(***************************************************************************)
Last(s) == s[Len(s)]

\* the outcome is a response with a transient status
TransientStatus(o) == ~o.fault /\ o.status \in {429, 500, 503}
\* the outcome is a response whose status is none of 200, 429, 500, 503
PermanentStatus(o) == ~o.fault /\ o.status \notin {200, 429, 500, 503}
\* the outcome is a 200 whose body has a string at candidates[0].content.parts[0].text
WellFormed200(o) ==
  /\ ~o.fault /\ o.status = 200
  /\ \E txt \in Texts \cup {"", "x"} : o.body = WellFormedBody(txt)
\* the string a well-formed body carries in its text field
TextOf(b) == b.o["candidates"].l[1].o["content"].o["parts"].l[1].o["text"]
\* the outcome is a 200 whose body lacks the text field: missing key or empty list
Missing200(o) == ~o.fault /\ o.status = 200 /\ o.body \in MissingBodies
\* the outcome is a 200 whose body deviates from the expected shape in any way
Deviating200(o) == ~o.fault /\ o.status = 200 /\ ~WellFormed200(o)

\* the backoff schedule 2^0, 2^1, ..., 2^(k-1)
Backoff(k) == [i \in 1..k |-> 2 ^ (i - 1)]

\* outcome number i of call c ended the call there and then: nothing was
\* posted after it, and no warning or sleep was made because of it
EndsCall(c, i) ==
  /\ i = Len(hist[c])
  /\ pc[c] \in {"classify", "done"}
  /\ Len(sleeps[c]) = i - 1
  /\ Len(warnings[c]) = i - 1

\* the value handed back is a string of the program
IsStringResult(r) ==
  \/ r.kind \in {"parse_error", "api_error", "exhausted"}
  \/ r.kind = "value" /\ r.val.t = "str"

\* the credential is empty: unset, or the empty string
EmptyCredential(k) == ~k.set \/ k.v = ""

(***************************************************************************)
(* C1: one call performs at most MAX_RETRIES HTTP POSTs and the attempt    *)
(* index of every POST lies in 0..MAX_RETRIES-1, whatever the outcomes.    *)
(***************************************************************************)
C1_AttemptsBounded ==
  \A c \in Calls :
    /\ Len(post_log[c]) <= MAX_RETRIES
    /\ \A i \in 1..Len(post_log[c]) : post_log[c][i].attempt \in 0..(MAX_RETRIES - 1)

C1_Witness ==
  /\ pc[1] = "done"
  /\ Len(post_log[1]) = MAX_RETRIES
  /\ post_log[1][MAX_RETRIES].attempt = MAX_RETRIES - 1

(***************************************************************************)
(* C2: k transient responses (k in 0..4) followed by a well-formed 200     *)
(* make the call return that text after exactly k sleeps of 1, 2, ...,     *)
(* 2^(k-1) seconds, in that order.                                         *)
(***************************************************************************)
C2_BackoffThenText ==
  \A c \in Calls :
    LET n == Len(hist[c]) IN
      ( /\ pc[c] = "done"
        /\ n >= 1
        /\ WellFormed200(hist[c][n])
        /\ \A i \in 1..(n - 1) : TransientStatus(hist[c][i]) )
      => /\ n - 1 \in 0..4
         /\ result[c] = ReturnValue(TextOf(hist[c][n].body))
         /\ sleeps[c] = Backoff(n - 1)

C2_Witness ==
  /\ pc[1] = "done"
  /\ Len(hist[1]) = 5
  /\ \A i \in 1..4 : hist[1][i] = Response(503, ErrorBody)
  /\ WellFormed200(hist[1][5])
  /\ result[1] = ReturnValue(JStr("itinerary 1"))
  /\ sleeps[1] = <<1, 2, 4, 8>>

(***************************************************************************)
(* C3: when all MAX_RETRIES attempts get a transient status the call       *)
(* returns the exhaustion failure naming the attempt count, after exactly  *)
(* MAX_RETRIES-1 sleeps; nothing is slept after the final attempt.         *)
(***************************************************************************)
C3_ExhaustionAfterFourSleeps ==
  \A c \in Calls :
    ( /\ Len(hist[c]) = MAX_RETRIES
      /\ \A i \in 1..MAX_RETRIES : TransientStatus(hist[c][i]) )
    => /\ sleeps[c] = Backoff(MAX_RETRIES - 1)
       /\ pc[c] \in {"classify", "for", "done"}
       /\ pc[c] = "done" => result[c] = Exhausted(MAX_RETRIES)

C3_Witness ==
  /\ pc[1] = "done"
  /\ hist[1] = [i \in 1..5 |-> Response(429, ErrorBody)]
  /\ result[1].kind = "exhausted"
  /\ result[1].code = 5
  /\ Len(sleeps[1]) = 4

(***************************************************************************)
(* C4: a response whose status is none of 200, 429, 500, 503 ends the      *)
(* call at once with the permanent-error failure that carries the status   *)
(* code and the raw body; no sleep and no attempt follows it.              *)
(***************************************************************************)
C4_PermanentStatusReturnsAtOnce ==
  \A c \in Calls : \A i \in 1..Len(hist[c]) :
    PermanentStatus(hist[c][i])
    => /\ EndsCall(c, i)
       /\ pc[c] = "done" => result[c] = ApiError(hist[c][i].status, hist[c][i].body)

C4_Witness ==
  /\ pc[1] = "done"
  /\ hist[1] = <<Response(401, ErrorBody)>>
  /\ result[1] = ApiError(401, ErrorBody)
  /\ sleeps[1] = <<>>

(***************************************************************************)
(* C5: a 200 whose body lacks the text field (a missing key or an empty    *)
(* list on the path) makes the call return the parse-error failure with    *)
(* zero retries: no sleep, no warning, no further POST.                    *)
(***************************************************************************)
C5_MissingTextIsParseError ==
  \A c \in Calls : \A i \in 1..Len(hist[c]) :
    Missing200(hist[c][i])
    => /\ EndsCall(c, i)
       /\ pc[c] = "done" => result[c] = ParseError

C5_Witness ==
  /\ pc[1] = "done"
  /\ hist[1] = <<Response(200, ShapeAt(5, EmptyObj))>>
  /\ result[1] = ParseError
  /\ sleeps[1] = <<>>
  /\ warnings[1] = <<>>

(***************************************************************************)
(* C6: every 200 that deviates from the expected shape in any way (not     *)
(* JSON, or a wrong type at some level of the path) is a permanent parse   *)
(* failure: the parse-error failure is returned, nothing is retried.       *)
(***************************************************************************)
C6_AnyDeviationIsParseError ==
  \A c \in Calls : \A i \in 1..Len(hist[c]) :
    Deviating200(hist[c][i])
    => /\ EndsCall(c, i)
       /\ pc[c] = "done" => result[c] = ParseError

(***************************************************************************)
(* C7: whatever the outcomes, the call returns a string to its caller;     *)
(* no error is raised past the function boundary.                          *)
(***************************************************************************)
C7_AlwaysReturnsString ==
  \A c \in Calls :
    pc[c] = "done" => result[c].kind # "raised" /\ IsStringResult(result[c])

C10_FirstSuccessReturnsText ==
  \A c \in Calls :
    (Len(hist[c]) >= 1 /\ WellFormed200(hist[c][1]))
    => /\ Len(hist[c]) = 1
       /\ sleeps[c] = <<>>
       /\ warnings[c] = <<>>
       /\ pc[c] \in {"classify", "done"}
       /\ pc[c] = "done" => /\ result[c].kind = "value"
                            /\ result[c].val = TextOf(hist[c][1].body)

C10_Witness ==
  /\ pc[1] = "done"
  /\ hist[1] = <<Response(200, WellFormedBody("itinerary 2"))>>
  /\ result[1] = ReturnValue(JStr("itinerary 2"))
  /\ sleeps[1] = <<>>
  /\ warnings[1] = <<>>

(***************************************************************************)
(* C9: transport faults are equivalent to transient statuses: replacing    *)
(* any subset of the 429/500/503 responses of an outcome sequence by       *)
(* transport faults changes neither the number of attempts, nor the list   *)
(* of sleep durations, nor the number of warnings, nor the kind of the     *)
(* returned outcome.                                                       *)
(***************************************************************************)
\* h2 is a beginning of h1 in which some transient statuses became faults
ReplacedPrefix(h1, h2) ==
  /\ Len(h2) <= Len(h1)
  /\ \A i \in 1..Len(h2) :
       \/ h2[i] = h1[i]
       \/ TransientStatus(h1[i]) /\ h2[i] = Fault

C9_FaultsEquivalentToTransientStatuses ==
  (pc[1] = "done" /\ ReplacedPrefix(hist[1], hist[2]))
  => /\ pc[2] = "post" => Len(hist[2]) < Len(hist[1])
     /\ pc[2] = "done" => /\ Len(post_log[2]) = Len(post_log[1])
                          /\ sleeps[2] = sleeps[1]
                          /\ Len(warnings[2]) = Len(warnings[1])
                          /\ result[2].kind = result[1].kind

C9_Witness ==
  /\ pc[1] = "done" /\ pc[2] = "done"
  /\ hist[1] = [i \in 1..5 |-> Response(503, ErrorBody)]
  /\ hist[2] = [i \in 1..5 |-> Fault]
  /\ sleeps[2] = <<1, 2, 4, 8>>
  /\ result[2].kind = "exhausted"

(***************************************************************************)
(* C11: for every day count N in 1..14 the itinerary structure rendered    *)
(* into the prompt has exactly N day headers, 'Day 1' .. 'Day N' in        *)
(* ascending order, each followed by the labels Morning, Afternoon,        *)
(* Evening, Transport Tip and Estimated Daily Cost.                        *)
(***************************************************************************)
StartsWith(line, prefix) ==
  Len(line) >= Len(prefix) /\ SubSeq(line, 1, Len(prefix)) = prefix

\* the positions of the day headers in the lines st, in ascending order
HeaderPositions(st) == {p \in 1..Len(st) : StartsWith(st[p], "### Day ")}

FiveLabels ==
  <<"-   **Morning:**", "-   **Afternoon:**", "-   **Evening:**",
    "-   **Transport Tip:**", "-   **Estimated Daily Cost:**">>

C11_DaySectionsRendered ==
  \A c \in Calls :
    (pc[c] \notin {"idle", "prompt"} /\ call_days[c] \in 1..14)
    => LET N == call_days[c]
           st == structure[c]
           hp == HeaderPositions(st)
       IN  /\ Cardinality(hp) = N
           /\ \A i \in 1..N :
                LET p == 6 * (i - 1) + 1 IN
                  /\ p \in hp
                  /\ st[p] = "### Day " \o ToString(i)
                  /\ p + 5 <= Len(st)
                  /\ \A j \in 1..5 : StartsWith(st[p + j], FiveLabels[j])

C11_Witness ==
  /\ pc[1] = "done"
  /\ call_days[1] = 14
  /\ Len(structure[1]) = 84
  /\ structure[1][1] = "### Day 1"
  /\ structure[1][79] = "### Day 14"
  /\ StartsWith(structure[1][84], "-   **Estimated Daily Cost:**")

(***************************************************************************)
(* C12: a terminal response ends the attempts: once an attempt has got a   *)
(* successfully parsed 200 or a permanent status, no later HTTP POST,      *)
(* sleep or warning occurs in that call.                                   *)
(***************************************************************************)
TerminalSeen(c) ==
  \E i \in 1..Len(hist[c]) : WellFormed200(hist[c][i]) \/ PermanentStatus(hist[c][i])

C12_NothingAfterTerminalResponse ==
  [][\A c \in Calls :
       TerminalSeen(c) => /\ post_log'[c] = post_log[c]
                          /\ hist'[c] = hist[c]
                          /\ sleeps'[c] = sleeps[c]
                          /\ warnings'[c] = warnings[c]]_vars

C12_Witness ==
  /\ pc[1] = "done"
  /\ Len(hist[1]) = 3
  /\ hist[1][1] = Fault
  /\ TransientStatus(hist[1][2])
  /\ PermanentStatus(hist[1][3])
  /\ Len(post_log[1]) = 3
  /\ Len(sleeps[1]) = 2
  /\ Len(warnings[1]) = 2

(***************************************************************************)
(* C13: the retry-exhaustion failure is returned only if exactly           *)
(* MAX_RETRIES attempts were made and every one ended in a transient       *)
(* outcome (429, 500, 503 or a transport fault); never after fewer         *)
(* attempts, nor after any 200 or permanent status was observed.           *)
(***************************************************************************)
TransientOutcome(o) == o.fault \/ TransientStatus(o)

C13_ExhaustionOnlyAfterTransients ==
  \A c \in Calls :
    result[c].kind = "exhausted"
    => /\ Len(hist[c]) = MAX_RETRIES
       /\ \A i \in 1..Len(hist[c]) : TransientOutcome(hist[c][i])

(***************************************************************************)
(* C14: every call that has begun eventually returns, with text or with a  *)
(* failure string, whatever the attempt outcomes are, given that each      *)
(* HTTP request and each sleep completes.                                  *)
(***************************************************************************)
C14_EventuallyReturnsString ==
  \A c \in Calls :
    (pc[c] # "idle") ~> (pc[c] = "done" /\ IsStringResult(result[c]))

\* the call does come to an end in every case, by a return or by an
\* exception that leaves the function
CallEnds == (pc[1] # "idle") ~> (pc[1] = "done")

(***************************************************************************)
(* C15: warnings and sleeps are paired: every sleep comes right after one  *)
(* warning of the same attempt and every warning is followed by its sleep, *)
(* so the number of warnings equals the number of sleeps started; the      *)
(* final allowed attempt emits neither.                                    *)
(***************************************************************************)
\* the call stands at time.sleep, its warning just emitted
AtSleep(c) == pc[c] \in {"sleep_status", "sleep_except"}

\* sleeps completed, and the one the call has just reached
SleepsStarted(c) == Len(sleeps[c]) + (IF AtSleep(c) THEN 1 ELSE 0)

C15_WarningsPairedWithSleeps ==
  \A c \in Calls :
    /\ Len(warnings[c]) = SleepsStarted(c)
    /\ \A i \in 1..Len(sleeps[c]) :
         /\ warnings[c][i].wait = sleeps[c][i]
         /\ sleeps[c][i] = 2 ^ (i - 1)
    /\ AtSleep(c) => Last(warnings[c]).wait = wait_time[c]
    /\ attempt[c] = MAX_RETRIES - 1
         => /\ pc[c] \notin {"warn_status", "warn_except", "sleep_status", "sleep_except"}
            /\ Len(warnings[c]) <= MAX_RETRIES - 1

C15_Witness ==
  /\ pc[1] = "done"
  /\ attempt[1] = MAX_RETRIES - 1
  /\ result[1].kind = "exhausted"
  /\ Len(warnings[1]) = 4
  /\ Len(sleeps[1]) = 4
  /\ warnings[1][1].cause = "status"
  /\ warnings[1][2].cause = "connection"

(***************************************************************************)
(* C16: when calls run concurrently, under every interleaving each call's  *)
(* attempt count, sleep durations and returned outcome are those of a run  *)
(* alone on the same outcome sequence: the calls keep independent retry    *)
(* state and write no shared variable.                                     *)
(***************************************************************************)
\* everything call c holds and has done
CallState(c) ==
  <<pc[c], call_days[c], structure[c], api_key[c], attempt[c], response[c],
    wait_time[c], result[c], hist[c], post_log[c], sleeps[c], warnings[c]>>

\* call 3, alone, has had the outcomes of call 1 up to some point
SoloRunOfCallOne ==
  /\ pc[1] = "done" /\ pc[2] = "done"
  /\ Len(hist[3]) <= Len(hist[1])
  /\ \A i \in 1..Len(hist[3]) : hist[3][i] = hist[1][i]

C16_ConcurrentCallsIndependent ==
  /\ [](SoloRunOfCallOne
        => /\ pc[3] = "post" => Len(hist[3]) < Len(hist[1])
           /\ pc[3] = "done" => /\ Len(post_log[3]) = Len(post_log[1])
                                /\ attempt[3] = attempt[1]
                                /\ sleeps[3] = sleeps[1]
                                /\ warnings[3] = warnings[1]
                                /\ result[3] = result[1])
  /\ [][\A c \in Calls : \A d \in Calls \ {c} :
          CallState(c)' # CallState(c) => CallState(d)' = CallState(d)]_vars

C16_Witness ==
  /\ pc[1] = "done" /\ pc[2] = "done" /\ pc[3] = "done"
  /\ hist[3] = hist[1]
  /\ Len(hist[1]) = 5
  /\ Len(hist[2]) = 3
  /\ sleeps[1] = <<1, 2, 4, 8>>
  /\ sleeps[2] = <<1, 2>>
  /\ sleeps[3] = <<1, 2, 4, 8>>
  /\ result[3] = result[1]
  /\ result[2] # result[1]

(***************************************************************************)
(* C17: the day count handed to generate_itinerary_gemini is a positive    *)
(* integer within the input bound 1..14, for every start and end date the  *)
(* user can select, also after it is recomputed from the date range.       *)
(***************************************************************************)
C17_DayCountWithinInputBound ==
  \A c \in Calls : pc[c] # "idle" => call_days[c] \in 1..14

(***************************************************************************)
(* C18: generate_itinerary_gemini is never invoked with a day count <= 0:  *)
(* when (end_date - start_date).days + 1 is zero or negative, pressing     *)
(* the button produces an error message and no HTTP POST is made.          *)
(***************************************************************************)
\* (end_date - start_date).days + 1
DateRangeDays == (end_date - start_date) + 1

C18_NoCallWithoutDays ==
  /\ \A c \in Calls : pc[c] # "idle" => call_days[c] > 0
  /\ (app = "form" /\ DateRangeDays <= 0)
       => /\ days = DateRangeDays
          /\ \A c \in Calls : pc[c] = "idle" /\ post_log[c] = <<>>
  /\ days_error => (app = "form" /\ DateRangeDays <= 0)

C18_Witness ==
  /\ app = "form"
  /\ start_date = 1
  /\ end_date = -1
  /\ days = -1
  /\ days_error
  /\ pc[1] = "idle"
  /\ post_log[1] = <<>>

(***************************************************************************)
(* C19: in every reachable state of a call the backoff time slept so far   *)
(* is at most 2^(MAX_RETRIES-1) - 1 = 15 seconds, and the 16-second wait   *)
(* computed on the final attempt is never slept.                           *)
(***************************************************************************)
RECURSIVE SumSeq(_)
SumSeq(q) == IF q = <<>> THEN 0 ELSE Head(q) + SumSeq(Tail(q))

C19_TotalBackoffAtMostFifteen ==
  \A c \in Calls :
    /\ SumSeq(sleeps[c]) <= 2 ^ (MAX_RETRIES - 1) - 1
    /\ SumSeq(sleeps[c]) <= 15
    /\ \A i \in 1..Len(sleeps[c]) : sleeps[c][i] # 16
    /\ wait_time[c] = 16 => ~AtSleep(c)

C19_Witness ==
  /\ pc[1] = "done"
  /\ wait_time[1] = 16
  /\ SumSeq(sleeps[1]) = 15
  /\ Last(hist[1]) = Fault

====
